---- MODULE Spec2Model ----
(***************************************************************************)
(* The HTTP gateway of the Chaski Bots educational platform, in its three  *)
(* source variants (src/server.js, src/unnamed/part_000 and                *)
(* src/unnamed/part_001).  Every route handler is a sequence of awaited    *)
(* calls to the external Supabase service; a handler advances one awaited  *)
(* call at a time, so handlers of concurrent requests interleave at their  *)
(* await points.  The external service is the environment: each call       *)
(* either is evaluated against the upstream tables, or returns an error    *)
(* object, or throws.                                                      *)
(***************************************************************************)
EXTENDS Integers, Sequences, FiniteSets, TLC

VARIABLES
    NODE_ENV,    \* process.env.NODE_ENV of the deployment
    variant,     \* which of the three server files is deployed
    catalog,     \* upstream tables niveles, cursos, lecciones, instituciones
    usuarios,    \* upstream profile table
    authUsers,   \* accounts held by the external auth service
    conn,        \* per connection: the request being handled and its handler state
    received     \* number of requests accepted so far

vars == <<NODE_ENV, variant, catalog, usuarios, authUsers, conn, received>>

-----------------------------------------------------------------------------
(* Bounds *)

\* total number of requests the gateway accepts in one behaviour
MaxRequests == 2

\* connections that can be open at the same time
Conns == {"A", "B"}

Variants == {"server.js", "part_000", "part_001"}

-----------------------------------------------------------------------------
(* JavaScript values *)

\* the value of an absent body field, header or query parameter
Undefined == "<undefined>"

\* a test that takes only the absent value for falsy
FalsyUndefinedOnly(v) == v = Undefined

\* !v for the string-or-undefined values the handlers test
Falsy(v) == v \in {Undefined, ""}

\* the values of process.env.NODE_ENV: the two names the code tests for
NodeEnvs == {"production", "development"}

\* message carried by an error object or exception of the external service
ErrMsg == "upstream failure"

-----------------------------------------------------------------------------
(* Upstream data *)

NivelRows ==
    { [id |-> "n1", nombre |-> "Primaria",     descripcion |-> "d1", color |-> "red",  icono |-> "a", orden_nivel |-> 2],
      [id |-> "n2", nombre |-> "Secundaria",   descripcion |-> "d2", color |-> "blue", icono |-> "b", orden_nivel |-> 1],
      [id |-> "n3", nombre |-> "Bachillerato", descripcion |-> "d3", color |-> "gray", icono |-> "c", orden_nivel |-> 3] }

CursoRows ==
    { [id |-> "c1", nivel_id |-> "n1", nombre |-> "Robots",  orden_curso |-> 2],
      [id |-> "c2", nivel_id |-> "n1", nombre |-> "Scratch", orden_curso |-> 1],
      [id |-> "c3", nivel_id |-> "n2", nombre |-> "Arduino", orden_curso |-> 1] }

LeccionRows ==
    { [id |-> "l1", curso_id |-> "c1", nombre |-> "Motores",  orden_leccion |-> 2],
      [id |-> "l2", curso_id |-> "c1", nombre |-> "Sensores", orden_leccion |-> 1],
      [id |-> "l3", curso_id |-> "c2", nombre |-> "Bloques",  orden_leccion |-> 1] }

InstitucionRows ==
    { [id |-> "i1", nombre |-> "Colegio Uno",  codigo_acceso |-> "K1"],
      [id |-> "i2", nombre |-> "Colegio Dos",  codigo_acceso |-> "K2"],
      [id |-> "i3", nombre |-> "Colegio Tres", codigo_acceso |-> "K3"] }

\* the rows whose activo flag is false in the upstream data
InactiveRows == {"n3", "c1", "l2", "i2"}

WithActivo(rows, inactive) ==
    { r @@ [activo |-> (r.id \notin inactive)] : r \in rows }

CatalogOf(inactive) ==
    [ niveles       |-> WithActivo(NivelRows, inactive),
      cursos        |-> WithActivo(CursoRows, inactive),
      lecciones     |-> WithActivo(LeccionRows, inactive),
      instituciones |-> WithActivo(InstitucionRows, inactive) ]

Emails == {"ana@x", "bo@x"}

\* the account and profile row that exist before the gateway starts
AnaAuth ==
    [ id |-> "u1", email |-> "ana@x", password |-> "pw1",
      user_metadata |-> [nombre |-> "Ana", apellidos |-> "Mar", rol |-> "estudiante", grado |-> "4to"] ]

AnaRow ==
    [ id |-> "u1", institucion_id |-> "i1", nombre |-> "Ana", apellidos |-> "Mar",
      email |-> "ana@x", password_hash |-> "managed_by_supabase_auth",
      rol |-> "estudiante", grado |-> "4to", activo |-> TRUE ]

\* ids the auth service hands out, in order of account creation
IdPool == <<"u1", "u2", "u3">>

\* the access token of the session the auth service issues for an account
TokenOf(id) == <<"jwt:", id>>

-----------------------------------------------------------------------------
(* The external service: table queries *)

\* result of an awaited call: a thrown exception, or the {data, error} pair
NoRow == [none |-> TRUE]

Thrown(null) == [thrown |-> TRUE, error |-> FALSE, message |-> ErrMsg, data |-> null]

Failed(msg, null) == [thrown |-> FALSE, error |-> TRUE, message |-> msg, data |-> null]

Ok(d) == [thrown |-> FALSE, error |-> FALSE, message |-> "", data |-> d]

NoEq == [c \in {} |-> TRUE]

\* a query as the handlers build it with from/select/eq/order/single
Query(table, star, cols, embed, embedCols, eq, order, limit, single) ==
    [ table |-> table, star |-> star, cols |-> cols, embed |-> embed,
      embedCols |-> embedCols, eq |-> eq, order |-> order, limit |-> limit,
      single |-> single ]

\* the limit field of a query built without .limit
NoLimit == {}

TableRows(table) ==
    IF table = "usuarios" THEN usuarios ELSE catalog[table]

ForeignKey(embed) ==
    IF embed = "niveles" THEN "nivel_id" ELSE "institucion_id"

Project(r, cols) == [c \in cols |-> r[c]]

\* .eq(col, val) filters
Matching(q) ==
    { r \in TableRows(q.table) : \A c \in DOMAIN q.eq : r[c] = q.eq[c] }

\* select(...) column list, with the embedded parent row when one is asked for
Shape(q, r) ==
    LET base == IF q.star THEN r ELSE Project(r, q.cols)
    IN  IF q.embed = "none" THEN base
        ELSE LET parent == CHOOSE p \in catalog[q.embed] : p.id = r[ForeignKey(q.embed)]
             IN  base @@ (q.embed :> Project(parent, q.embedCols))

\* the row orders the database may return: ascending by the .order(col)
\* column when there is one (rows equal on it in any order), any order
\* when the query has no .order
Orderings(rows, order) ==
    LET n == Cardinality(rows)
    IN  { s \in [1..n -> rows] :
            /\ \A i, j \in 1..n : i # j => s[i] # s[j]
            /\ order # "none" =>
                 \A i, j \in 1..n : i < j => s[i][order] <= s[j][order] }

\* .limit(n) keeps the first n rows
Limited(q, n) ==
    IF \E m \in q.limit : m < n THEN CHOOSE m \in q.limit : TRUE ELSE n

\* what the service can answer when it evaluates the query
Evaluate(q) ==
    IF q.single
    THEN IF Cardinality(Matching(q)) = 1
         THEN { Ok(Shape(q, r)) : r \in Matching(q) }
         ELSE { Failed("PGRST116", NoRow) }
    ELSE { Ok([i \in 1..Limited(q, Len(s)) |-> Shape(q, s[i])]) :
             s \in Orderings(Matching(q), q.order) }

\* every way an awaited query can complete
QueryResults(q) ==
    LET null == IF q.single THEN NoRow ELSE <<>>
    IN  Evaluate(q) \cup { Failed(ErrMsg, null), Thrown(null) }

-----------------------------------------------------------------------------
(* The external service: auth *)

AccountOf(email) == { a \in authUsers : a.email = email }

AuthUserView(a) == [id |-> a.id, email |-> a.email, user_metadata |-> a.user_metadata]

NewAccount(email, password, meta) ==
    [ id |-> IdPool[Cardinality(authUsers) + 1], email |-> email,
      password |-> password, user_metadata |-> meta ]

\* auth.signUp: the answer when the service evaluates the call
SignUpAnswer(email, password, meta) ==
    IF AccountOf(email) # {}
    THEN Failed("User already registered", NoRow)
    ELSE Ok([user |-> AuthUserView(NewAccount(email, password, meta))])

\* auth.signInWithPassword
SignInAnswer(email, password) ==
    LET match == { a \in AccountOf(email) : a.password = password }
    IN  IF match = {}
        THEN Failed("Invalid login credentials", NoRow)
        ELSE LET a == CHOOSE x \in match : TRUE
             IN  Ok([user |-> AuthUserView(a), session |-> [access_token |-> TokenOf(a.id)]])

\* auth.getUser(token)
GetUserAnswer(token) ==
    LET match == { a \in authUsers : TokenOf(a.id) = token }
    IN  IF match = {}
        THEN Failed("invalid JWT", NoRow)
        ELSE Ok([user |-> AuthUserView(CHOOSE x \in match : TRUE)])

-----------------------------------------------------------------------------
(* Requests *)

EmptyBody ==
    [ nombre |-> Undefined, apellidos |-> Undefined, email |-> Undefined,
      password |-> Undefined, codigo_institucion |-> Undefined, grado |-> Undefined ]

NoHeader == [present |-> FALSE, value |-> <<>>]

Header(v) == [present |-> TRUE, value |-> v]

NoQuery == [nivel |-> Undefined]

Request(method, path, query, authorization, body) ==
    [ method |-> method, path |-> path, query |-> query,
      authorization |-> authorization, body |-> body ]

Get(path) == Request("GET", path, NoQuery, NoHeader, EmptyBody)

\* a complete registration body, and the bodies that lack fields
BodyOf(email, codigo) ==
    [ nombre |-> "Eva", apellidos |-> "Paz", email |-> email, password |-> "pw1",
      codigo_institucion |-> codigo, grado |-> "5to" ]

\* K1 is the code of an active institution, K2 of an inactive one
FullBodies ==
    { BodyOf("bo@x", "K1"), BodyOf("bo@x", "K2"), BodyOf("ana@x", "K1") }

LackingBodies ==
    { [BodyOf("bo@x", "K1") EXCEPT ![f] = IF f \in {"nombre", "password", "grado"} THEN Undefined ELSE ""] :
        f \in DOMAIN EmptyBody }

LoginBody(email, password) == [EmptyBody EXCEPT !.email = email, !.password = password]

LoginBodies ==
    { LoginBody("ana@x", "pw1"), LoginBody("ana@x", "bad"), LoginBody("bo@x", "pw1"),
      LoginBody(Undefined, "pw1"), LoginBody("ana@x", "") }

AuthHeaders ==
    { NoHeader, Header(<<>>), Header(<<"Bearer ">> \o TokenOf("u1")),
      Header(TokenOf("u2")), Header(<<"Bearer ", "garbage">>) }

\* the headers sent to the logout, which hands the token on unexamined
LogoutHeaders == { NoHeader, Header(<<>>), Header(<<"Bearer ">> \o TokenOf("u1")) }

Requests ==
    { Get(<<>>), Get(<<"api", "health">>), Get(<<"api", "niveles">>),
      Get(<<"api", "instituciones">>),
      Request("PUT", <<"api", "niveles">>, NoQuery, NoHeader, EmptyBody) }
    \cup { Get(<<"api", "cursos", "n1">>), Get(<<"api", "lecciones", "c1">>) }
    \cup { Request("GET", <<"api", "cursos">>, [nivel |-> n], NoHeader, EmptyBody) :
             n \in {Undefined, "Primaria", "Inicial"} }
    \cup { Request("POST", <<"api", "auth", "registro-estudiante">>, NoQuery, NoHeader, b) :
             b \in FullBodies \cup LackingBodies }
    \cup { Request("POST", <<"api", "auth", "login">>, NoQuery, NoHeader, b) : b \in LoginBodies }
    \cup { Request("GET", <<"api", "auth", "me">>, NoQuery, h, EmptyBody) : h \in AuthHeaders }
    \cup { Request("POST", <<"api", "auth", "logout">>, NoQuery, h, EmptyBody) : h \in LogoutHeaders }

-----------------------------------------------------------------------------
(* Routing *)

Route(method, pattern, handler) == [method |-> method, pattern |-> pattern, handler |-> handler]

CommonRoutes ==
    << Route("GET",  <<>>, "root"),
       Route("GET",  <<"api", "health">>, "health"),
       Route("GET",  <<"api", "niveles">>, "niveles"),
       Route("GET",  <<"api", "cursos", ":nivelId">>, "cursosNivel"),
       Route("GET",  <<"api", "lecciones", ":cursoId">>, "lecciones"),
       Route("GET",  <<"api", "instituciones">>, "instituciones"),
       Route("POST", <<"api", "auth", "registro-estudiante">>, "registro") >>

\* the routes each file declares with app.get / app.post
Routes(v) ==
    CASE v = "server.js" -> CommonRoutes
      [] v = "part_000"  -> CommonRoutes \o << Route("POST", <<"api", "auth", "login">>, "login") >>
      [] v = "part_001"  -> CommonRoutes \o
                            << Route("GET",  <<"api", "cursos">>, "cursos"),
                               Route("POST", <<"api", "auth", "login">>, "login"),
                               Route("GET",  <<"api", "auth", "me">>, "me"),
                               Route("POST", <<"api", "auth", "logout">>, "logout") >>

IsParam(seg) == seg \in {":nivelId", ":cursoId"}

Matches(route, r) ==
    /\ route.method = r.method
    /\ Len(route.pattern) = Len(r.path)
    /\ \A i \in 1..Len(r.path) : IsParam(route.pattern[i]) \/ route.pattern[i] = r.path[i]

\* the handler express runs: the first declared route that matches, and the
\* app.use('*') handler when none does
Dispatch(v, r) ==
    LET hits == { i \in 1..Len(Routes(v)) : Matches(Routes(v)[i], r) }
    IN  IF hits = {} THEN "notFound"
        ELSE Routes(v)[CHOOSE i \in hits : \A j \in hits : i <= j].handler

\* req.path: the path without the query string
PathOnly(r) == [path |-> r.path, query |-> NoQuery]

\* req.originalUrl: the path with its query string
OriginalUrl(r) == [path |-> r.path, query |-> r.query]

-----------------------------------------------------------------------------
(* Handler state *)

NoRequest == [none |-> TRUE]

NoResponse == [status |-> 0, body |-> NoRow]

\* a connection with no request: the locals of the handlers are unset
Idle ==
    [ r |-> NoRequest, handler |-> "none", pc |-> "idle",
      institucion |-> NoRow, authData |-> NoRow, nivelData |-> NoRow,
      calls |-> <<>>, res |-> NoResponse, sent |-> 0,
      emailFree |-> TRUE ]   \* history: no account had the body's email on arrival

\* res.status(status).json(body)
Send(c, status, body) ==
    [c EXCEPT !.res = [status |-> status, body |-> body], !.sent = @ + 1, !.pc = "done"]

\* how an awaited call completed
Outcome(res) == IF res.thrown THEN "throw" ELSE IF res.error THEN "error" ELSE "data"

\* the handler issues a call to the external service; the log keeps the call
\* and how it completed
Call(c, op, arg, res) ==
    [c EXCEPT !.calls = Append(@, [op |-> op, arg |-> arg, outcome |-> Outcome(res)])]

ListHandlers == {"niveles", "cursosNivel", "cursos", "lecciones", "instituciones"}

\* the key of the list in the body of a list response
ListKey(h) ==
    CASE h = "niveles" -> "niveles"
      [] h \in {"cursosNivel", "cursos"} -> "cursos"
      [] h = "lecciones" -> "lecciones"
      [] h = "instituciones" -> "instituciones"

ListErr(h) ==
    CASE h = "niveles" -> "Error al obtener niveles"
      [] h \in {"cursosNivel", "cursos"} -> "Error al obtener cursos"
      [] h = "lecciones" -> "Error al obtener lecciones"
      [] h = "instituciones" -> "Error al obtener instituciones"

\* the body the catch block of a handler sends with status 500
CatchBody(v, h, msg) ==
    CASE h = "health" ->
           [ status |-> "ERROR",
             database |-> IF v = "part_000" THEN "Disconnected" ELSE "Error",
             error |-> msg ]
      [] h \in ListHandlers /\ v = "part_000" -> [error |-> ListErr(h)]
      [] h \notin ListHandlers \cup {"health"} /\ v = "part_000" ->
           [error |-> "Error interno del servidor"]
      [] OTHER -> [error |-> "Error interno del servidor", details |-> msg]

\* POST /api/auth/registro-estudiante up to its first await
StartRegistro(c) ==
    LET b == c.r.body
    IN  IF \/ Falsy(b.nombre) \/ Falsy(b.apellidos) \/ Falsy(b.email)
           \/ Falsy(b.password) \/ Falsy(b.codigo_institucion) \/ Falsy(b.grado)
        THEN Send(c, 400, [error |-> "Todos los campos son requeridos"])
        ELSE [c EXCEPT !.pc = "institucion"]

\* a login validation that tests the email only
StartLoginEmailOnly(c) ==
    IF Falsy(c.r.body.email)
    THEN Send(c, 400, [error |-> "Email y contrasena son requeridos"])
    ELSE [c EXCEPT !.pc = "signIn"]

\* POST /api/auth/login up to its first await
StartLogin(c) ==
    IF Falsy(c.r.body.email) \/ Falsy(c.r.body.password)
    THEN Send(c, 400, [error |-> "Email y contrasena son requeridos"])
    ELSE [c EXCEPT !.pc = "signIn"]

\* !authHeader
NoAuthHeader(r) == ~r.authorization.present \/ r.authorization.value = <<>>

\* a session check that sends every request on to auth.getUser
StartMeUnchecked(c) == [c EXCEPT !.pc = "getUser"]

\* GET /api/auth/me up to its first await
StartMe(c) ==
    IF NoAuthHeader(c.r)
    THEN Send(c, 401, [error |-> "Token no proporcionado"])
    ELSE [c EXCEPT !.pc = "getUser"]

\* POST /api/auth/logout up to its first await
StartLogout(c) ==
    IF ~NoAuthHeader(c.r)
    THEN [c EXCEPT !.pc = "signOut"]
    ELSE Send(c, 200, [success |-> TRUE, message |-> "Logout exitoso"])

\* GET /api/cursos up to its first await
StartCursos(c) ==
    IF ~Falsy(c.r.query.nivel) THEN [c EXCEPT !.pc = "nivel"] ELSE [c EXCEPT !.pc = "list"]

\* the error-handling middleware declared after the routes: it answers for a
\* fault that is passed on by a middleware or a handler
ErrorMiddleware(env, msg) ==
    [ error |-> "Algo salio mal!",
      message |-> IF env = "development" THEN msg ELSE "Error interno del servidor" ]

\* GET /
RootBody(env) ==
    [ message |-> "API funcionando", version |-> "1.0.0", status |-> "online",
      environment |-> IF Falsy(env) THEN "development" ELSE env ]

\* the synchronous part of the handler express dispatches the request to
Start(env, v, r) ==
    LET h == Dispatch(v, r)
        c == [Idle EXCEPT !.r = r, !.handler = h]
    IN  CASE h = "notFound" ->
               Send(c, 404, [error |-> "Ruta no encontrada", path |-> OriginalUrl(r)])
          [] h = "root" ->
               Send(c, 200, RootBody(env))
          [] h = "health" -> [c EXCEPT !.pc = "health"]
          [] h \in ListHandlers \ {"cursos"} -> [c EXCEPT !.pc = "list"]
          [] h = "cursos" -> StartCursos(c)
          [] h = "registro" -> StartRegistro(c)
          [] h = "login" -> StartLogin(c)
          [] h = "me" -> StartMe(c)
          [] h = "logout" -> StartLogout(c)

-----------------------------------------------------------------------------
(* GET /api/health *)

\* the probe query; its rows are not inspected by the handler
HealthQuery(v) ==
    Query(IF v = "part_000" THEN "instituciones" ELSE "niveles",
          FALSE, {"id"}, "none", {}, NoEq, "none", {1}, FALSE)

AfterHealth(v, c, res) ==
    CASE res.thrown -> Send(c, 500, CatchBody(v, "health", res.message))
      [] ~res.thrown /\ res.error /\ v = "part_000" ->
           Send(c, 500, CatchBody(v, "health", res.message))
      [] ~res.thrown /\ res.error /\ v # "part_000" ->
           Send(c, 500, [ status |-> "ERROR", database |-> "Disconnected",
                          supabase |-> "Error", error |-> res.message ])
      [] OTHER ->
           IF v = "part_000"
           THEN Send(c, 200, [status |-> "OK", database |-> "Connected", supabase |-> "Connected"])
           ELSE Send(c, 200, [ status |-> "OK", database |-> "Connected",
                               supabase |-> "Connected", dataTest |-> "Success" ])

-----------------------------------------------------------------------------
(* GET /api/niveles, /api/cursos/:nivelId, /api/cursos, /api/lecciones/:cursoId,
   /api/instituciones *)

\* GET /api/cursos?nivel=...: the lookup of the level by name
NivelQuery(r) ==
    Query("niveles", FALSE, {"id"}, "none", {}, [nombre |-> r.query.nivel], "none", NoLimit, TRUE)

\* the list queries with the activo filter of the lessons left out
ListQueryAllLecciones(c) ==
    CASE c.handler = "niveles" ->
           Query("niveles", TRUE, {}, "none", {}, [activo |-> TRUE], "orden_nivel", NoLimit, FALSE)
      [] c.handler = "cursosNivel" ->
           Query("cursos", TRUE, {}, "niveles", {"nombre", "descripcion"},
                 [nivel_id |-> c.r.path[3], activo |-> TRUE], "orden_curso", NoLimit, FALSE)
      [] c.handler = "cursos" ->
           Query("cursos", TRUE, {}, "niveles", {"nombre", "descripcion", "color", "icono"},
                 IF c.nivelData # NoRow
                 THEN [activo |-> TRUE, nivel_id |-> c.nivelData.id]
                 ELSE [activo |-> TRUE],
                 "orden_curso", NoLimit, FALSE)
      [] c.handler = "lecciones" ->
           Query("lecciones", TRUE, {}, "none", {},
                 [curso_id |-> c.r.path[3]], "orden_leccion", NoLimit, FALSE)
      [] c.handler = "instituciones" ->
           Query("instituciones", FALSE, {"id", "nombre", "codigo_acceso"}, "none", {},
                 [activo |-> TRUE], "none", NoLimit, FALSE)

\* the list query each list handler builds
ListQuery(c) ==
    CASE c.handler = "niveles" ->
           Query("niveles", TRUE, {}, "none", {}, [activo |-> TRUE], "orden_nivel", NoLimit, FALSE)
      [] c.handler = "cursosNivel" ->
           Query("cursos", TRUE, {}, "niveles", {"nombre", "descripcion"},
                 [nivel_id |-> c.r.path[3], activo |-> TRUE], "orden_curso", NoLimit, FALSE)
      [] c.handler = "cursos" ->
           Query("cursos", TRUE, {}, "niveles", {"nombre", "descripcion", "color", "icono"},
                 IF c.nivelData # NoRow
                 THEN [activo |-> TRUE, nivel_id |-> c.nivelData.id]
                 ELSE [activo |-> TRUE],
                 "orden_curso", NoLimit, FALSE)
      [] c.handler = "lecciones" ->
           Query("lecciones", TRUE, {}, "none", {},
                 [curso_id |-> c.r.path[3], activo |-> TRUE], "orden_leccion", NoLimit, FALSE)
      [] c.handler = "instituciones" ->
           Query("instituciones", FALSE, {"id", "nombre", "codigo_acceso"}, "none", {},
                 [activo |-> TRUE], "none", NoLimit, FALSE)

\* the body of a successful list response
ListBody(v, h, data) ==
    IF v = "part_000"
    THEN (ListKey(h) :> data)
    ELSE (ListKey(h) :> data) @@ [success |-> TRUE, count |-> Len(data)]

\* GET /api/cursos after the level lookup: its error is not inspected
AfterNivel(c, res) ==
    IF res.thrown
    THEN Send(c, 500, CatchBody("part_001", "cursos", res.message))
    ELSE [c EXCEPT !.nivelData = res.data, !.pc = "list"]

\* a list step whose error branch has no return: the success response is
\* sent after the error response
AfterListNoReturn(v, c, res) ==
    CASE res.thrown -> Send(c, 500, CatchBody(v, c.handler, res.message))
      [] ~res.thrown /\ res.error /\ v = "part_000" ->
           Send(c, 500, CatchBody(v, c.handler, res.message))
      [] ~res.thrown /\ res.error /\ v # "part_000" ->
           Send(Send(c, 500, [error |-> ListErr(c.handler), details |-> res.message]),
                200, ListBody(v, c.handler, res.data))
      [] OTHER -> Send(c, 200, ListBody(v, c.handler, res.data))

AfterList(v, c, res) ==
    CASE res.thrown -> Send(c, 500, CatchBody(v, c.handler, res.message))
      [] ~res.thrown /\ res.error /\ v = "part_000" ->
           Send(c, 500, CatchBody(v, c.handler, res.message))
      [] ~res.thrown /\ res.error /\ v # "part_000" ->
           Send(c, 500, [error |-> ListErr(c.handler), details |-> res.message])
      [] OTHER -> Send(c, 200, ListBody(v, c.handler, res.data))

-----------------------------------------------------------------------------
(* POST /api/auth/registro-estudiante *)

\* the lookup without its activo filter
InstitucionQueryAnyState(r) ==
    Query("instituciones", FALSE, {"id", "nombre"}, "none", {},
          [codigo_acceso |-> r.body.codigo_institucion], "none", NoLimit, TRUE)

InstitucionQuery(r) ==
    Query("instituciones", FALSE, {"id", "nombre"}, "none", {},
          [codigo_acceso |-> r.body.codigo_institucion, activo |-> TRUE],
          "none", NoLimit, TRUE)

\* part_000 only: is there a profile row with this email
EmailQuery(r) ==
    Query("usuarios", FALSE, {"id"}, "none", {}, [email |-> r.body.email], "none", NoLimit, TRUE)

\* 'Error al crear usuario: ' + authError.message
SignUpError(msg) ==
    IF msg = ErrMsg THEN "Error al crear usuario: upstream failure"
    ELSE "Error al crear usuario: User already registered"

\* options.data of the signUp call
SignUpMeta(v, c) ==
    LET b == c.r.body
        meta == [ nombre |-> b.nombre, apellidos |-> b.apellidos, rol |-> "estudiante",
                  grado |-> b.grado, institucion_id |-> c.institucion.id ]
    IN  IF v = "part_000" THEN meta @@ [codigo_estudiante |-> "EST<now>"] ELSE meta

\* part_001 only: the profile row inserted after the signUp
UsuarioRow(c) ==
    LET b == c.r.body
    IN  [ id |-> c.authData.user.id, institucion_id |-> c.institucion.id,
          nombre |-> b.nombre, apellidos |-> b.apellidos, email |-> b.email,
          password_hash |-> "managed_by_supabase_auth", rol |-> "estudiante",
          grado |-> b.grado, activo |-> TRUE ]

\* a 201 response that reports the access code in place of the institution name
RegistroBodyCode(v, c) ==
    LET b == c.r.body
        user == [ id |-> c.authData.user.id, email |-> c.authData.user.email,
                  nombre |-> b.nombre, apellidos |-> b.apellidos, rol |-> "estudiante",
                  grado |-> b.grado, institucion |-> b.codigo_institucion ]
    IN  IF v = "part_000"
        THEN [ message |-> "Estudiante registrado exitosamente",
               user |-> user @@ [codigo_estudiante |-> "EST<now>"] ]
        ELSE [ success |-> TRUE, message |-> "Estudiante registrado exitosamente", user |-> user ]

\* the 201 response
RegistroBody(v, c) ==
    LET b == c.r.body
        user == [ id |-> c.authData.user.id, email |-> c.authData.user.email,
                  nombre |-> b.nombre, apellidos |-> b.apellidos, rol |-> "estudiante",
                  grado |-> b.grado, institucion |-> c.institucion.nombre ]
    IN  IF v = "part_000"
        THEN [ message |-> "Estudiante registrado exitosamente",
               user |-> user @@ [codigo_estudiante |-> "EST<now>"] ]
        ELSE [ success |-> TRUE, message |-> "Estudiante registrado exitosamente", user |-> user ]

AfterInstitucion(v, c, res) ==
    CASE res.thrown -> Send(c, 500, CatchBody(v, "registro", res.message))
      [] ~res.thrown /\ (res.error \/ res.data = NoRow) ->
           Send(c, 400, [error |-> "Codigo de institucion invalido"])
      [] OTHER ->
           [c EXCEPT !.institucion = res.data,
                     !.pc = IF v = "part_000" THEN "emailCheck" ELSE "signUp"]

AfterEmailCheck(v, c, res) ==
    CASE res.thrown -> Send(c, 500, CatchBody(v, "registro", res.message))
      [] ~res.thrown /\ res.data # NoRow ->
           Send(c, 400, [error |-> "El email ya esta registrado"])
      [] OTHER -> [c EXCEPT !.pc = "signUp"]

AfterSignUp(v, c, res) ==
    CASE res.thrown -> Send(c, 500, CatchBody(v, "registro", res.message))
      [] ~res.thrown /\ res.error ->
           Send(c, 400, [error |-> SignUpError(res.message)])
      [] OTHER ->
           LET d == [c EXCEPT !.authData = res.data]
           IN  IF v = "part_001" THEN [d EXCEPT !.pc = "insert"]
               ELSE Send(d, 201, RegistroBody(v, d))

\* an insert step that reports a returned error of the insert as a failure
AfterInsertStrict(v, c, res) ==
    IF res.thrown \/ res.error
    THEN Send(c, 500, CatchBody(v, "registro", res.message))
    ELSE Send(c, 201, RegistroBody(v, c))

\* part_001: a failed insert is logged and the handler carries on
AfterInsert(v, c, res) ==
    IF res.thrown
    THEN Send(c, 500, CatchBody(v, "registro", res.message))
    ELSE Send(c, 201, RegistroBody(v, c))

-----------------------------------------------------------------------------
(* POST /api/auth/login *)

ProfileQuery(v, r) ==
    IF v = "part_000"
    THEN Query("usuarios", TRUE, {}, "instituciones", {"nombre"},
               [email |-> r.body.email], "none", NoLimit, TRUE)
    ELSE Query("usuarios", FALSE, {"id", "nombre", "apellidos", "rol", "grado", "activo"},
               "instituciones", {"nombre", "codigo_acceso"},
               [email |-> r.body.email, activo |-> TRUE], "none", NoLimit, TRUE)

\* a || b on strings
OrElse(a, b) == IF Falsy(a) THEN b ELSE a

\* the user summary built from the metadata of the auth account
MetadataUser(user) ==
    [ id |-> user.id, email |-> user.email,
      nombre |-> OrElse(user.user_metadata.nombre, "Usuario"),
      apellidos |-> OrElse(user.user_metadata.apellidos, ""),
      rol |-> OrElse(user.user_metadata.rol, "estudiante"),
      grado |-> OrElse(user.user_metadata.grado, "sin-grado") ]

\* the user summary built from the profile row
ProfileUser(r, userData) ==
    [ id |-> userData.id, email |-> r.body.email, nombre |-> userData.nombre,
      apellidos |-> userData.apellidos, rol |-> userData.rol, grado |-> userData.grado,
      institucion |-> OrElse(userData.instituciones.nombre, "Sin institucion") ]

\* a login response whose metadata branch leaves the session out
LoginResponseNoSession(v, c, res) ==
    IF v = "part_000"
    THEN [ message |-> "Login exitoso", session |-> c.authData.session,
           user |-> IF res.data # NoRow THEN res.data ELSE c.authData.user ]
    ELSE IF res.error
         THEN [ success |-> TRUE, message |-> "Login exitoso",
                user |-> MetadataUser(c.authData.user) ]
         ELSE [ success |-> TRUE, message |-> "Login exitoso", session |-> c.authData.session,
                user |-> ProfileUser(c.r, res.data) ]

\* a login response that always answers from the data of the auth service
LoginResponseAuthOnly(v, c, res) ==
    IF v = "part_000"
    THEN [ message |-> "Login exitoso", session |-> c.authData.session,
           user |-> c.authData.user ]
    ELSE [ success |-> TRUE, message |-> "Login exitoso", session |-> c.authData.session,
           user |-> MetadataUser(c.authData.user) ]

\* the 200 response of the login
LoginResponse(v, c, res) ==
    IF v = "part_000"
    THEN [ message |-> "Login exitoso", session |-> c.authData.session,
           user |-> IF res.data # NoRow THEN res.data ELSE c.authData.user ]
    ELSE [ success |-> TRUE, message |-> "Login exitoso", session |-> c.authData.session,
           user |-> IF res.error THEN MetadataUser(c.authData.user)
                    ELSE ProfileUser(c.r, res.data) ]

AfterSignIn(v, c, res) ==
    CASE res.thrown -> Send(c, 500, CatchBody(v, "login", res.message))
      [] ~res.thrown /\ res.error -> Send(c, 401, [error |-> "Credenciales invalidas"])
      [] OTHER -> [c EXCEPT !.authData = res.data, !.pc = "profile"]

AfterProfile(v, c, res) ==
    IF res.thrown
    THEN Send(c, 500, CatchBody(v, "login", res.message))
    ELSE Send(c, 200, LoginResponse(v, c, res))

-----------------------------------------------------------------------------
(* GET /api/auth/me and POST /api/auth/logout (part_001) *)

\* authHeader.replace('Bearer ', ''): drops the first occurrence
RemoveBearer(h) ==
    LET at == { i \in 1..Len(h) : h[i] = "Bearer " }
    IN  IF at = {} THEN h
        ELSE LET k == CHOOSE i \in at : \A j \in at : i <= j
             IN  SubSeq(h, 1, k - 1) \o SubSeq(h, k + 1, Len(h))

MeQuery(c) ==
    Query("usuarios", FALSE, {"nombre", "apellidos", "rol", "grado"},
          "instituciones", {"nombre"}, [id |-> c.authData.user.id], "none", NoLimit, TRUE)

\* userData?.f || user.user_metadata.f || fallback
MeBody(c, res) ==
    LET user == c.authData.user
        has == res.data # NoRow
        Pick(f, fallback) ==
            OrElse(IF has THEN res.data[f] ELSE Undefined,
                   OrElse(user.user_metadata[f], fallback))
    IN  [ success |-> TRUE,
          user |-> [ id |-> user.id, email |-> user.email,
                     nombre |-> Pick("nombre", "Usuario"),
                     apellidos |-> Pick("apellidos", ""),
                     rol |-> Pick("rol", "estudiante"),
                     grado |-> Pick("grado", "sin-grado"),
                     institucion |-> IF has THEN res.data.instituciones.nombre ELSE Undefined ] ]

AfterGetUser(c, res) ==
    CASE res.thrown -> Send(c, 500, CatchBody("part_001", "me", res.message))
      [] ~res.thrown /\ (res.error \/ res.data = NoRow) ->
           Send(c, 401, [error |-> "Token invalido"])
      [] OTHER -> [c EXCEPT !.authData = res.data, !.pc = "meProfile"]

AfterMeProfile(c, res) ==
    IF res.thrown
    THEN Send(c, 500, CatchBody("part_001", "me", res.message))
    ELSE Send(c, 200, MeBody(c, res))

\* a logout that treats a returned signOut error as a failure
AfterSignOutChecked(c, res) ==
    IF res.thrown \/ res.error
    THEN Send(c, 500, CatchBody("part_001", "logout", res.message))
    ELSE Send(c, 200, [success |-> TRUE, message |-> "Logout exitoso"])

\* a logout without its try/catch: an exception of signOut is passed on to
\* the error-handling middleware
AfterSignOutUncaught(c, res) ==
    IF res.thrown
    THEN Send(c, 500, ErrorMiddleware(NODE_ENV, res.message))
    ELSE Send(c, 200, [success |-> TRUE, message |-> "Logout exitoso"])

\* the result of signOut is not inspected
AfterSignOut(c, res) ==
    IF res.thrown
    THEN Send(c, 500, CatchBody("part_001", "logout", res.message))
    ELSE Send(c, 200, [success |-> TRUE, message |-> "Logout exitoso"])

-----------------------------------------------------------------------------
(* Actions *)

Init ==
    /\ NODE_ENV \in NodeEnvs
    /\ variant \in Variants
    /\ catalog = CatalogOf(InactiveRows)
    /\ usuarios = {AnaRow}
    /\ authUsers = {AnaAuth}
    /\ conn = [k \in Conns |-> Idle]
    /\ received = 0

AuthFailures == { Failed(ErrMsg, NoRow), Thrown(NoRow) }

\* a connection that holds no request in flight
Free(k) == conn[k].pc \in {"idle", "done"}

\* the connections are interchangeable: a request is put on the first free one
FirstFree(k) == Free(k) /\ (k = "B" => ~Free("A"))

\* a request arrives on a free connection; its handler runs to its first await
Receive(k) ==
    /\ FirstFree(k)
    /\ received < MaxRequests
    /\ \E r \in Requests :
         conn' = [conn EXCEPT ![k] =
                    [Start(NODE_ENV, variant, r) EXCEPT !.emailFree = (AccountOf(r.body.email) = {})]]
    /\ received' = received + 1
    /\ UNCHANGED <<NODE_ENV, variant, catalog, usuarios, authUsers>>

\* the handler has awaited the table query q; the log entry also keeps how
\* many rows of the table matched the filters of q when it was issued
Selected(c, q, res) ==
    LET d == Call(c, "select", <<q.table>>, res)
        n == Len(d.calls)
    IN  [d EXCEPT !.calls[n] = @ @@ [rows |-> Cardinality(Matching(q))]]

\* each action below: the call connection k awaits completes, and the
\* handler runs on to its next await or to its response

Health(k) ==
    /\ conn[k].pc = "health"
    /\ LET c == conn[k]
           q == HealthQuery(variant)
       IN  \E res \in QueryResults(q) :
             conn' = [conn EXCEPT ![k] = AfterHealth(variant, Selected(c, q, res), res)]
    /\ UNCHANGED <<NODE_ENV, variant, catalog, usuarios, authUsers, received>>

NivelLookup(k) ==
    /\ conn[k].pc = "nivel"
    /\ LET c == conn[k]
           q == NivelQuery(c.r)
       IN  \E res \in QueryResults(q) :
             conn' = [conn EXCEPT ![k] = AfterNivel(Selected(c, q, res), res)]
    /\ UNCHANGED <<NODE_ENV, variant, catalog, usuarios, authUsers, received>>

List(k) ==
    /\ conn[k].pc = "list"
    /\ LET c == conn[k]
           q == ListQuery(c)
       IN  \E res \in QueryResults(q) :
             conn' = [conn EXCEPT ![k] = AfterList(variant, Selected(c, q, res), res)]
    /\ UNCHANGED <<NODE_ENV, variant, catalog, usuarios, authUsers, received>>

InstitucionLookup(k) ==
    /\ conn[k].pc = "institucion"
    /\ LET c == conn[k]
           q == InstitucionQuery(c.r)
       IN  \E res \in QueryResults(q) :
             conn' = [conn EXCEPT ![k] = AfterInstitucion(variant, Selected(c, q, res), res)]
    /\ UNCHANGED <<NODE_ENV, variant, catalog, usuarios, authUsers, received>>

EmailCheck(k) ==
    /\ conn[k].pc = "emailCheck"
    /\ LET c == conn[k]
           q == EmailQuery(c.r)
       IN  \E res \in QueryResults(q) :
             conn' = [conn EXCEPT ![k] = AfterEmailCheck(variant, Selected(c, q, res), res)]
    /\ UNCHANGED <<NODE_ENV, variant, catalog, usuarios, authUsers, received>>

\* a signUp step that waits while another connection is between its email
\* check and the end of its signUp for the same email
SignUpSerialised(k) ==
    /\ conn[k].pc = "signUp"
    /\ \A o \in Conns \ {k} :
         ~(conn[o].pc = "signUp" /\ conn[o].r.body.email = conn[k].r.body.email)
    /\ LET c == conn[k]
           b == c.r.body
           meta == SignUpMeta(variant, c)
       IN  \E res \in {SignUpAnswer(b.email, b.password, meta)} \cup AuthFailures :
             /\ authUsers' = IF ~res.thrown /\ ~res.error
                             THEN authUsers \cup {NewAccount(b.email, b.password, meta)}
                             ELSE authUsers
             /\ conn' = [conn EXCEPT ![k] =
                           AfterSignUp(variant, Call(c, "auth.signUp", <<b.email>>, res), res)]
    /\ UNCHANGED <<NODE_ENV, variant, catalog, usuarios, received>>

SignUp(k) ==
    /\ conn[k].pc = "signUp"
    /\ LET c == conn[k]
           b == c.r.body
           meta == SignUpMeta(variant, c)
       IN  \E res \in {SignUpAnswer(b.email, b.password, meta)} \cup AuthFailures :
             /\ authUsers' = IF ~res.thrown /\ ~res.error
                             THEN authUsers \cup {NewAccount(b.email, b.password, meta)}
                             ELSE authUsers
             /\ conn' = [conn EXCEPT ![k] =
                           AfterSignUp(variant, Call(c, "auth.signUp", <<b.email>>, res), res)]
    /\ UNCHANGED <<NODE_ENV, variant, catalog, usuarios, received>>

InsertUsuario(k) ==
    /\ conn[k].pc = "insert"
    /\ LET c == conn[k]
           row == UsuarioRow(c)
           answer == IF \E u \in usuarios : u.id = row.id
                     THEN Failed("duplicate key", NoRow) ELSE Ok(row)
       IN  \E res \in {answer, Failed(ErrMsg, NoRow), Thrown(NoRow)} :
             /\ usuarios' = IF ~res.thrown /\ ~res.error THEN usuarios \cup {row} ELSE usuarios
             /\ conn' = [conn EXCEPT ![k] =
                           AfterInsert(variant, Call(c, "insert", <<"usuarios">>, res), res)]
    /\ UNCHANGED <<NODE_ENV, variant, catalog, authUsers, received>>

\* a signIn step that waits until no other connection has a call outstanding
SignInBlocking(k) ==
    /\ conn[k].pc = "signIn"
    /\ \A o \in Conns \ {k} : conn[o].pc \in {"idle", "done"}
    /\ LET c == conn[k]
           b == c.r.body
       IN  \E res \in {SignInAnswer(b.email, b.password)} \cup AuthFailures :
             conn' = [conn EXCEPT ![k] =
                        AfterSignIn(variant, Call(c, "auth.signInWithPassword", <<b.email>>, res), res)]
    /\ UNCHANGED <<NODE_ENV, variant, catalog, usuarios, authUsers, received>>

SignIn(k) ==
    /\ conn[k].pc = "signIn"
    /\ LET c == conn[k]
           b == c.r.body
       IN  \E res \in {SignInAnswer(b.email, b.password)} \cup AuthFailures :
             conn' = [conn EXCEPT ![k] =
                        AfterSignIn(variant, Call(c, "auth.signInWithPassword", <<b.email>>, res), res)]
    /\ UNCHANGED <<NODE_ENV, variant, catalog, usuarios, authUsers, received>>

Profile(k) ==
    /\ conn[k].pc = "profile"
    /\ LET c == conn[k]
           q == ProfileQuery(variant, c.r)
       IN  \E res \in QueryResults(q) :
             conn' = [conn EXCEPT ![k] = AfterProfile(variant, Selected(c, q, res), res)]
    /\ UNCHANGED <<NODE_ENV, variant, catalog, usuarios, authUsers, received>>

GetUser(k) ==
    /\ conn[k].pc = "getUser"
    /\ LET c == conn[k]
           token == RemoveBearer(c.r.authorization.value)
       IN  \E res \in {GetUserAnswer(token)} \cup AuthFailures :
             conn' = [conn EXCEPT ![k] = AfterGetUser(Call(c, "auth.getUser", token, res), res)]
    /\ UNCHANGED <<NODE_ENV, variant, catalog, usuarios, authUsers, received>>

MeProfile(k) ==
    /\ conn[k].pc = "meProfile"
    /\ LET c == conn[k]
           q == MeQuery(c)
       IN  \E res \in QueryResults(q) :
             conn' = [conn EXCEPT ![k] = AfterMeProfile(Selected(c, q, res), res)]
    /\ UNCHANGED <<NODE_ENV, variant, catalog, usuarios, authUsers, received>>

SignOut(k) ==
    /\ conn[k].pc = "signOut"
    /\ LET c == conn[k]
           token == RemoveBearer(c.r.authorization.value)
       IN  \E res \in {Ok(NoRow)} \cup AuthFailures :
             conn' = [conn EXCEPT ![k] = AfterSignOut(Call(c, "auth.signOut", token, res), res)]
    /\ UNCHANGED <<NODE_ENV, variant, catalog, usuarios, authUsers, received>>

Next ==
    \E k \in Conns :
        \/ Receive(k)
        \/ Health(k)
        \/ NivelLookup(k)
        \/ List(k)
        \/ InstitucionLookup(k)
        \/ EmailCheck(k)
        \/ SignUp(k)
        \/ InsertUsuario(k)
        \/ SignIn(k)
        \/ Profile(k)
        \/ GetUser(k)
        \/ MeProfile(k)
        \/ SignOut(k)

Spec == Init /\ [][Next]_vars

\* the call connection k awaits completes
Step(k) ==
    \/ Health(k)
    \/ NivelLookup(k)
    \/ List(k)
    \/ InstitucionLookup(k)
    \/ EmailCheck(k)
    \/ SignUp(k)
    \/ InsertUsuario(k)
    \/ SignIn(k)
    \/ Profile(k)
    \/ GetUser(k)
    \/ MeProfile(k)
    \/ SignOut(k)

\* a production deployment. NODE_ENV, which only GET / reads, is fixed to
\* keep the graph of the specification below small.
InitProduction == Init /\ NODE_ENV = "production"

\* the external service answers every call of connection B, while a call of
\* connection A may never complete
SpecBServed == InitProduction /\ [][Next]_vars /\ WF_vars(Step("B"))

-----------------------------------------------------------------------------
(* Properties *)

RequiredFields == {"nombre", "apellidos", "email", "password", "codigo_institucion", "grado"}

\* a body field that is missing or empty
Lacks(b, f) == b[f] = Undefined \/ b[f] = ""

Ops(c) == { c.calls[i].op : i \in DOMAIN c.calls }

ActiveInstituciones(code) ==
    { i \in catalog.instituciones : i.codigo_acceso = code /\ i.activo }

\* C1: a registration request in which one of the six required fields is
\* missing or empty is answered 400 with an `error` field, and its handler
\* has issued no call to the external service (so it created no account).
C1_MissingFieldsRejected ==
    \A k \in Conns :
        LET c == conn[k]
        IN  (c.handler = "registro" /\ \E f \in RequiredFields : Lacks(c.r.body, f)) =>
                /\ c.res.status = 400
                /\ "error" \in DOMAIN c.res.body
                /\ c.calls = <<>>

C1_Witness ==
    \E k \in Conns :
        /\ conn[k].handler = "registro"
        /\ conn[k].r.body.email = ""
        /\ conn[k].r.body.nombre = "Eva"
        /\ conn[k].res.status = 400

Complete(b) == \A f \in RequiredFields : ~Lacks(b, f)

\* the call log entries of an operation
Entries(c, op) == { i \in DOMAIN c.calls : c.calls[i].op = op }

Threw(c) == \E i \in DOMAIN c.calls : c.calls[i].outcome = "throw"

\* the 201 body names the account the auth service holds for the email and
\* the active institution that has the code
NamesCreatedUser(c) ==
    /\ "user" \in DOMAIN c.res.body
    /\ \E a \in authUsers :
         /\ a.email = c.r.body.email
         /\ c.res.body.user.id = a.id
         /\ c.res.body.user.email = a.email
    /\ \E i \in ActiveInstituciones(c.r.body.codigo_institucion) :
         c.res.body.user.institucion = i.nombre

\* C3 as stated: a complete registration request with the code of an active
\* institution and an email that no account had is answered 201 with the id
\* and email of the created account and the name of the institution.
C3_Original ==
    \A k \in Conns :
        LET c == conn[k]
        IN  ( /\ c.handler = "registro" /\ c.pc = "done"
              /\ Complete(c.r.body)
              /\ ActiveInstituciones(c.r.body.codigo_institucion) # {}
              /\ c.emailFree ) =>
                c.res.status = 201 /\ NamesCreatedUser(c)

\* C3 amended: when the institution lookup returned an institution and
\* auth.signUp returned without error, the answer is 201 with the id and
\* email of the created account and the name of the institution, unless a
\* later call of the handler threw (then 500); a signUp error gives 400.
C3_RegistrationCreated ==
    \A k \in Conns :
        LET c == conn[k]
        IN  (c.handler = "registro" /\ c.pc = "done") =>
              /\ (\E i \in Entries(c, "auth.signUp") : c.calls[i].outcome = "data") =>
                    IF Threw(c) THEN c.res.status = 500
                    ELSE c.res.status = 201 /\ NamesCreatedUser(c)
              /\ (\E i \in Entries(c, "auth.signUp") : c.calls[i].outcome = "error") =>
                    c.res.status = 400
              /\ c.res.status = 201 =>
                    \E i \in Entries(c, "auth.signUp") : c.calls[i].outcome = "data"

C3_Witness ==
    \E k \in Conns :
        /\ conn[k].handler = "registro"
        /\ conn[k].r.body.email = "bo@x"
        /\ conn[k].res.status = 201
        /\ conn[k].res.body.user.id = "u2"
        /\ conn[k].res.body.user.institucion = "Colegio Uno"

\* the session the auth service issues for the account of the email
CarriesSession(c) ==
    /\ "session" \in DOMAIN c.res.body
    /\ c.res.body.session.access_token # <<>>
    /\ \E a \in authUsers :
         /\ a.email = c.r.body.email
         /\ c.res.body.session = [access_token |-> TokenOf(a.id)]

\* C4 as stated: a login with both fields is answered 200 with the session
\* of the auth service when the service accepts the credentials, and 401
\* without a session when it rejects them.
C4_Original ==
    \A k \in Conns :
        LET c == conn[k]
        IN  (c.handler = "login" /\ c.pc = "done" /\ Len(c.calls) >= 1) =>
              /\ c.calls[1].outcome = "data" => c.res.status = 200 /\ CarriesSession(c)
              /\ c.calls[1].outcome = "error" =>
                    c.res.status = 401 /\ "session" \notin DOMAIN c.res.body

\* C4 amended: accepted credentials give 200 with the session unless the
\* profile query that follows throws, which gives 500 without a session;
\* rejected credentials give 401 without a session.
C4_LoginOutcome ==
    \A k \in Conns :
        LET c == conn[k]
        IN  (c.handler = "login" /\ c.pc = "done" /\ Len(c.calls) >= 1) =>
              /\ (c.calls[1].outcome = "data" /\ ~Threw(c)) =>
                    c.res.status = 200 /\ CarriesSession(c)
              /\ (c.calls[1].outcome = "data" /\ Threw(c)) =>
                    c.res.status = 500 /\ "session" \notin DOMAIN c.res.body
              /\ c.calls[1].outcome = "error" =>
                    c.res.status = 401 /\ "session" \notin DOMAIN c.res.body

\* an accepted login answered from the metadata of an account that has no
\* profile row, next to a rejected one
C4_Witness ==
    \E a, b \in Conns :
        /\ conn[a].handler = "login" /\ conn[a].res.status = 200
        /\ conn[a].calls[2].outcome = "error"
        /\ conn[b].handler = "login" /\ conn[b].res.status = 401
        /\ conn[b].r.body.password = "bad"

\* the order column of the entity a list handler returns; institutions have none
OrderField(h) ==
    CASE h = "niveles" -> "orden_nivel"
      [] h \in {"cursosNivel", "cursos"} -> "orden_curso"
      [] h = "lecciones" -> "orden_leccion"

\* the list query of the handler, its last call, returned data
ListSucceeded(c) ==
    /\ c.handler \in ListHandlers
    /\ c.pc = "done"
    /\ c.calls # <<>>
    /\ c.calls[Len(c.calls)].outcome = "data"

TheList(c) == c.res.body[ListKey(c.handler)]

\* the upstream row behind every entry of the list is active
AllActive(c) ==
    \A i \in DOMAIN TheList(c) :
        \E row \in catalog[ListKey(c.handler)] : row.id = TheList(c)[i].id /\ row.activo

SortedList(c) ==
    \A i, j \in DOMAIN TheList(c) :
        i < j => TheList(c)[i][OrderField(c.handler)] <= TheList(c)[j][OrderField(c.handler)]

C6_UnmatchedRoute ==
    \A k \in Conns :
        LET c == conn[k]
        IN  ( /\ c.handler # "none"
              /\ \A i \in DOMAIN Routes(variant) : ~Matches(Routes(variant)[i], c.r) ) =>
                /\ c.res.status = 404
                /\ c.res.body.path = [path |-> c.r.path, query |-> c.r.query]
                /\ c.calls = <<>>

\* GET /api/cursos?nivel=Primaria on a file that declares no /api/cursos route
C6_Witness ==
    \E k \in Conns :
        /\ variant = "server.js"
        /\ conn[k].handler # "none"
        /\ conn[k].r.path = <<"api", "cursos">>
        /\ conn[k].r.query.nivel = "Primaria"
        /\ conn[k].res.status = 404

\* C7: two answered requests to the same list endpoint with the same
\* parameters, over the same upstream data, carry identical lists.
C7_RepeatedListIdentical ==
    \A a, b \in Conns :
        ( /\ ListSucceeded(conn[a]) /\ ListSucceeded(conn[b])
          /\ conn[a].r = conn[b].r ) =>
            TheList(conn[a]) = TheList(conn[b])

\* the request carries a non-empty Authorization header
Supplied(r) == r.authorization.present /\ r.authorization.value # <<>>

\* the header value after its leading 'Bearer '
BearerToken(r) ==
    IF Head(r.authorization.value) = "Bearer "
    THEN Tail(r.authorization.value)
    ELSE r.authorization.value

\* the handler has called the auth operation once, with the token, and nothing else
CalledOnceWithToken(c, op) ==
    /\ Len(c.calls) = 1
    /\ c.calls[1].op = op
    /\ c.calls[1].arg = BearerToken(c.r)

\* C8 as stated: a logout is answered 200 with or without an Authorization
\* header; with one, auth.signOut has been called with the token before the
\* answer; without one, nothing has been called.
C8_Original ==
    \A k \in Conns :
        LET c == conn[k]
        IN  (c.handler = "logout" /\ c.pc = "done") =>
              /\ c.res.status = 200
              /\ IF Supplied(c.r) THEN CalledOnceWithToken(c, "auth.signOut")
                 ELSE c.calls = <<>>

\* C8 amended: without a header the answer is 200 and nothing is called;
\* with one, auth.signOut is called with the token before the answer, which
\* is 200 when the call returns (with an error or not) and 500 when it throws.
C8_Logout ==
    \A k \in Conns :
        LET c == conn[k]
        IN  (c.handler = "logout" /\ c.pc = "done") =>
              IF Supplied(c.r)
              THEN /\ CalledOnceWithToken(c, "auth.signOut")
                   /\ c.res.status = IF c.calls[1].outcome = "throw" THEN 500 ELSE 200
              ELSE c.res.status = 200 /\ c.calls = <<>>

\* a logout whose signOut returned an error, next to one without a header
C8_Witness ==
    \E a, b \in Conns :
        /\ conn[a].handler = "logout" /\ conn[a].res.status = 200
        /\ conn[a].r.authorization.value = <<"Bearer ", "jwt:", "u1">>
        /\ conn[a].calls = <<[op |-> "auth.signOut", arg |-> <<"jwt:", "u1">>, outcome |-> "error"]>>
        /\ conn[b].handler = "logout" /\ conn[b].res.status = 200
        /\ ~conn[b].r.authorization.present

\* C9: the session check answers 401 without calling the external service
\* when there is no Authorization header, 401 when auth.getUser returns an
\* error or no user, and 200 only when auth.getUser resolved the token to a
\* user, whose id and email the answer carries.
C9_Me ==
    \A k \in Conns :
        LET c == conn[k]
        IN  c.handler = "me" =>
              /\ ~Supplied(c.r) => c.res.status = 401 /\ c.calls = <<>>
              /\ (Len(c.calls) >= 1 /\ c.calls[1].outcome = "error") =>
                    c.res.status = 401 /\ Len(c.calls) = 1
              /\ c.res.status = 200 =>
                    /\ c.calls[1].op = "auth.getUser"
                    /\ c.calls[1].arg = BearerToken(c.r)
                    /\ c.calls[1].outcome = "data"
                    /\ \E a \in authUsers :
                         /\ TokenOf(a.id) = BearerToken(c.r)
                         /\ c.res.body.user.id = a.id
                         /\ c.res.body.user.email = a.email

\* the session of the account registered a moment before, answered from
\* the metadata of the account
C9_Witness ==
    \E k \in Conns :
        /\ conn[k].handler = "me" /\ conn[k].res.status = 200
        /\ conn[k].r.authorization.value = <<"jwt:", "u2">>
        /\ conn[k].res.body.user.id = "u2"
        /\ conn[k].res.body.user.nombre = "Eva"

\* C10: a login request in which email or password is missing or empty is
\* answered 400 and its handler has issued no call to the external service.
C10_LoginMissingFields ==
    \A k \in Conns :
        LET c == conn[k]
        IN  (c.handler = "login" /\ (Lacks(c.r.body, "email") \/ Lacks(c.r.body, "password"))) =>
              /\ c.res.status = 400
              /\ "error" \in DOMAIN c.res.body
              /\ c.calls = <<>>

C10_Witness ==
    \E k \in Conns :
        /\ conn[k].handler = "login"
        /\ conn[k].r.body.email = "ana@x"
        /\ conn[k].r.body.password = ""
        /\ conn[k].res.status = 400

FailureStatus == {400, 401, 500}

\* the last call of the handler returned an error or threw
LastCallFailed(c) ==
    /\ c.calls # <<>>
    /\ c.calls[Len(c.calls)].outcome \in {"error", "throw"}

\* the response is one of the error-handling middleware
FromErrorMiddleware(res) ==
    /\ "error" \in DOMAIN res.body
    /\ res.body.error = "Algo salio mal!"

\* C11: in every handler of every variant, a request whose external call
\* threw is answered 500 by the handler's own catch block with an `error`
\* field; a request that ended after a returned error is answered either
\* with a success (the handler ignores that error) or with 400, 401 or 500
\* and an `error` field; no request is answered by the error-handling
\* middleware, and a request whose handler has ended has its response.
C11_FailureReported ==
    \A k \in Conns :
        LET c == conn[k]
        IN  /\ Threw(c) =>
                  /\ c.pc = "done"
                  /\ c.res.status = 500
                  /\ "error" \in DOMAIN c.res.body
            /\ (c.pc = "done" /\ LastCallFailed(c)) =>
                  \/ c.res.status \in {200, 201}
                  \/ /\ c.res.status \in FailureStatus
                     /\ "error" \in DOMAIN c.res.body
            /\ c.pc = "done" => (c.sent = 1 /\ c.res.status # 0)
            /\ ~FromErrorMiddleware(c.res)

\* a login of part_001 whose signIn threw, and a health probe whose query
\* returned an error
C11_Witness ==
    \E a, b \in Conns :
        /\ variant = "part_001"
        /\ conn[a].handler = "login"
        /\ Threw(conn[a])
        /\ conn[a].res.status = 500
        /\ conn[b].handler = "health"
        /\ conn[b].calls # <<>>
        /\ conn[b].calls[1].outcome = "error"
        /\ conn[b].res.status = 500

\* the values of the fields of a response body
BodyValues(res) == { res.body[f] : f \in DOMAIN res.body }

\* C12: every 500 response sent while NODE_ENV is production carries no
\* field holding the message of the underlying error, and every 500
\* response sent while NODE_ENV is not production carries that message.
C12_MessageOnlyOutsideProduction ==
    \A k \in Conns :
        LET c == conn[k]
        IN  (c.pc = "done" /\ c.res.status = 500) =>
              IF NODE_ENV = "production"
              THEN ErrMsg \notin BodyValues(c.res)
              ELSE ErrMsg \in BodyValues(c.res)

\* the user of the login response is the profile row u
ProfileSummary(c, u) ==
    LET user == c.res.body.user
    IN  /\ user.id = u.id
        /\ "user_metadata" \notin DOMAIN user
        /\ IF variant = "part_000"
           THEN /\ "instituciones" \in DOMAIN user
                /\ user.nombre = u.nombre
                /\ user.institucion_id = u.institucion_id
           ELSE /\ "institucion" \in DOMAIN user
                /\ user.nombre = u.nombre /\ user.apellidos = u.apellidos
                /\ user.rol = u.rol /\ user.grado = u.grado
                /\ \E i \in catalog.instituciones :
                     i.id = u.institucion_id /\ user.institucion = i.nombre

\* the user of the login response is built from the auth account a alone
MetadataSummary(c, a) ==
    LET user == c.res.body.user
        m == a.user_metadata
    IN  IF variant = "part_000"
        THEN user = [id |-> a.id, email |-> a.email, user_metadata |-> m]
        ELSE user = [ id |-> a.id, email |-> a.email, nombre |-> m.nombre,
                      apellidos |-> m.apellidos, rol |-> m.rol, grado |-> m.grado ]

TakenFromProfile(c) ==
    \E u \in usuarios : u.email = c.r.body.email /\ ProfileSummary(c, u)

TakenFromAuth(c) ==
    \E a \in authUsers : a.email = c.r.body.email /\ MetadataSummary(c, a)

LoginSucceeded(c) ==
    c.handler = "login" /\ c.pc = "done" /\ c.res.status = 200

ListedIds(c) == { TheList(c)[i].id : i \in DOMAIN TheList(c) }

\* C14: a successful GET /api/cursos with the nivel filter lists only active
\* courses of the level whose name is the filter value (so none when no level
\* has that name); without the filter it lists all the active courses.
C14_FilterByLevel ==
    \A k \in Conns :
        LET c == conn[k]
            nivel == c.r.query.nivel
        IN  (c.handler = "cursos" /\ ListSucceeded(c)) =>
              /\ AllActive(c)
              /\ IF nivel # Undefined
                 THEN \A i \in DOMAIN TheList(c) :
                        \E n \in catalog.niveles :
                            n.nombre = nivel /\ TheList(c)[i].nivel_id = n.id
                 ELSE ListedIds(c) = { x.id : x \in { y \in catalog.cursos : y.activo } }

\* connection k handles a registration of part_000 whose email check has
\* returned without a row
PassedEmailCheck(k) ==
    LET c == conn[k]
    IN  /\ variant = "part_000"
        /\ c.handler = "registro"
        /\ Len(c.calls) >= 2
        /\ c.calls[2].op = "select" /\ c.calls[2].arg = <<"usuarios">>
        /\ c.calls[2].outcome = "error"

\* C15: in part_000 nothing orders the email check of one registration
\* against the signUp of another: a registration whose email check found no
\* row goes on to signUp, and while it stands before its signUp call the call
\* can be issued, also when another registration of the same email has passed
\* its own check and stands before, or is past, its own signUp call.
C15_NothingSerialises ==
    \A a \in Conns :
        /\ PassedEmailCheck(a) =>
              conn[a].pc = "signUp" \/ "auth.signUp" \in Ops(conn[a])
        /\ \A b \in Conns \ {a} :
              ( /\ PassedEmailCheck(a) /\ PassedEmailCheck(b)
                /\ conn[a].r.body.email = conn[b].r.body.email
                /\ conn[a].pc = "signUp" ) =>
                    ENABLED SignUp(a)

\* check(A) and check(B) are done for the same email, which no account
\* has, and signUp(A) and signUp(B) are both still to come
C15_Witness ==
    /\ PassedEmailCheck("A") /\ PassedEmailCheck("B")
    /\ conn["A"].r.body.email = "bo@x" /\ conn["B"].r.body.email = "bo@x"
    /\ AccountOf("bo@x") = {}
    /\ conn["A"].pc = "signUp" /\ conn["B"].pc = "signUp"
    /\ conn["A"].calls[2].rows = 0 /\ conn["B"].calls[2].rows = 0

\* the profile insert of the registration returned an error
InsertFailed(c) ==
    /\ c.handler = "registro"
    /\ \E i \in Entries(c, "insert") : c.calls[i].outcome = "error"

\* C16: in part_001, a registration whose auth account was created and whose
\* profile insert then returned an error is answered 201 with the summary
\* of the created user; the insert is the last call of the handler, which
\* calls nothing but select, auth.signUp and insert, and the auth service
\* still holds the account.
C16_NoRollback ==
    \A k \in Conns :
        LET c == conn[k]
        IN  InsertFailed(c) =>
              /\ variant = "part_001"
              /\ c.pc = "done"
              /\ c.res.status = 201
              /\ NamesCreatedUser(c)
              /\ c.calls[Len(c.calls)].op = "insert"
              /\ Ops(c) = {"select", "auth.signUp", "insert"}
              /\ \E i \in Entries(c, "auth.signUp") : c.calls[i].outcome = "data"
              /\ AccountOf(c.r.body.email) # {}

\* the end state: an account for the email and no profile row for it
C16_Witness ==
    \E k \in Conns :
        /\ InsertFailed(conn[k])
        /\ conn[k].res.status = 201
        /\ received = MaxRequests
        /\ \A o \in Conns : conn[o].pc = "done"
        /\ AccountOf(conn[k].r.body.email) # {}
        /\ \A u \in usuarios : u.email # conn[k].r.body.email

\* the handler of connection k is suspended on an external call
Pending(k) == conn[k].pc \notin {"idle", "done"}

\* C17: a request suspended on an external call has no response, and it
\* holds nothing another connection waits for: the call another connection
\* is suspended on can complete and its handler run on, and a free
\* connection can take a new request, whatever the suspended request does.
C17_SuspendedBlocksNobody ==
    \A a \in Conns :
        Pending(a) =>
            /\ conn[a].res = NoResponse
            /\ conn[a].sent = 0
            /\ \A b \in Conns \ {a} :
                  /\ Pending(b) => ENABLED Step(b)
                  /\ (~Pending(b) /\ received < MaxRequests) => ENABLED Receive(b)

\* part_001: A is suspended on its profile insert, without a response, and
\* B has logged in to the account A's signUp created: B's calls were issued
\* and answered while A was suspended
C17_Witness ==
    /\ variant = "part_001"
    /\ conn["A"].handler = "registro"
    /\ conn["A"].pc = "insert"
    /\ conn["A"].res = NoResponse
    /\ conn["B"].handler = "login"
    /\ conn["B"].r.body.email = conn["A"].r.body.email
    /\ conn["B"].pc = "done"
    /\ Len(conn["B"].calls) = 2
    /\ conn["B"].res.status = 200

\* the handler of connection k has ended and has sent exactly one response
AnsweredOnce(k) ==
    /\ conn[k].pc = "done"
    /\ conn[k].sent = 1
    /\ conn[k].res.status # 0

\* C18: when every external call of connection B returns, every request of
\* B comes to the end of its handler with exactly one response sent: a
\* handler that ended with no response, or with two, would leave the
\* request short of that state for ever.
C18_ExactlyOneResponse == Pending("B") ~> AnsweredOnce("B")

\* B was answered once through the early return of the error branch of a
\* list handler, A once through a catch block after two completed calls
C18_Witness ==
    /\ variant = "part_001"
    /\ conn["B"].handler = "niveles"
    /\ conn["B"].calls # <<>>
    /\ conn["B"].calls[1].outcome = "error"
    /\ conn["B"].res.status = 500
    /\ conn["B"].sent = 1
    /\ conn["A"].handler = "login"
    /\ Len(conn["A"].calls) = 2
    /\ Threw(conn["A"])
    /\ conn["A"].res.status = 500
    /\ conn["A"].sent = 1

====
